---- MODULE Spec2Model ----
(***************************************************************************)
(* Nova Social API: the request handlers of main.py, the entity schemas of *)
(* schemas.py and the document access layer they call (database.py).       *)
(*                                                                         *)
(* A Python str is modelled as a sequence of one-character strings, so     *)
(* that len(), strip(), lower(), slicing, `in` and f-string formatting are *)
(* computed and not assumed.  Python's None is the value None below.       *)
(***************************************************************************)
EXTENDS Integers, Sequences, FiniteSets, TLC

VARIABLES db, store, nextId, req, resp, acked

vars == <<db, store, nextId, req, resp, acked>>

(***************************************************************************)
(* Bounds of the model.                                                    *)
(***************************************************************************)
\* Documents the model lets the database hold, over all collections.
MaxDocs == 2

(***************************************************************************)
(* Python values.                                                          *)
(***************************************************************************)
\* None: a value no str equals (every element of a str is one character).
None == <<"None">>

\* c * n for a one-character c.
Rep(c, n) == [i \in 1..n |-> c]

\* s[:n]
Prefix(s, n) == SubSeq(s, 1, IF n < Len(s) THEN n ELSE Len(s))

\* s.startswith(p)
StartsWith(s, p) == Len(p) <= Len(s) /\ SubSeq(s, 1, Len(p)) = p

\* sub in s
Contains(s, sub) ==
    \E i \in 1..(Len(s) - Len(sub) + 1) : SubSeq(s, i, i + Len(sub) - 1) = sub

\* The characters str.strip() removes (ASCII whitespace).
Whitespace == {" ", "\t", "\n", "\r"}

\* s.strip(): drop leading and trailing whitespace, keep what is between.
Strip(s) ==
    LET keep == {i \in 1..Len(s) : s[i] \notin Whitespace}
    IN  IF keep = {} THEN <<>>
        ELSE LET lo == CHOOSE i \in keep : \A j \in keep : i <= j
                 hi == CHOOSE i \in keep : \A j \in keep : j <= i
             IN  SubSeq(s, lo, hi)

UpperCase == <<"A", "B", "C", "D", "E", "F", "G", "H", "I", "J", "K", "L", "M", "N", "O", "P", "Q", "R", "S", "T", "U", "V", "W", "X", "Y", "Z">>
LowerCase == <<"a", "b", "c", "d", "e", "f", "g", "h", "i", "j", "k", "l", "m", "n", "o", "p", "q", "r", "s", "t", "u", "v", "w", "x", "y", "z">>

\* c.lower() for one character.
LowerChar(c) ==
    IF \E i \in 1..Len(UpperCase) : UpperCase[i] = c
    THEN LowerCase[CHOOSE i \in 1..Len(UpperCase) : UpperCase[i] = c]
    ELSE c

\* s.lower()
Lower(s) == [i \in 1..Len(s) |-> LowerChar(s[i])]

HexDigits == <<"0", "1", "2", "3", "4", "5", "6", "7", "8", "9", "a", "b", "c", "d", "e", "f">>

RECURSIVE Hex(_, _)
\* n in hexadecimal, zero-padded to width w.
Hex(n, w) == IF w = 0 THEN <<>> ELSE Append(Hex(n \div 16, w - 1), HexDigits[(n % 16) + 1])

\* The identifier the database generates for its n-th insert.
ObjectId(n) == [oid |-> n]

\* str(_id): the 24 hexadecimal digits of an ObjectId.
StrOid(o) == Hex(o.oid, 24)

\* An exception carrying a message, and str(e).
Exception(text) == [exc |-> "Exception", args |-> text]
StrExc(e) == e.args

(***************************************************************************)
(* schemas.py: the entity models.  A request body is a JSON object, here a *)
(* function from its keys to their values; a key may be missing.  Each     *)
(* model maps a body to [ok, errors, value]: value holds the declared      *)
(* fields only (pydantic ignores undeclared keys), defaults applied.       *)
(***************************************************************************)
Has(p, k) == k \in DOMAIN p

\* A required str field: Field(...); it must be present and not None.
Required(p, k) ==
    IF ~Has(p, k) THEN {<<k, "missing">>}
    ELSE IF p[k] = None THEN {<<k, "string_type">>}
    ELSE {}

\* An Optional[...] field's value is checked only when given and not None.
Given(p, k) == Has(p, k) /\ p[k] # None

\* min_length=n (inclusive).
MinLength(p, k, n) ==
    IF Given(p, k) /\ Len(p[k]) < n THEN {<<k, "string_too_short">>} ELSE {}

\* max_length=n taken as exclusive.
MaxLengthExclusive(p, k, n) ==
    IF Given(p, k) /\ Len(p[k]) >= n THEN {<<k, "string_too_long">>} ELSE {}

\* max_length=n (inclusive).
MaxLength(p, k, n) ==
    IF Given(p, k) /\ Len(p[k]) > n THEN {<<k, "string_too_long">>} ELSE {}

\* HttpUrl: an absolute URL of scheme http or https with a host.
IsHttpUrl(s) ==
    \E scheme \in {<<"h", "t", "t", "p", ":", "/", "/">>, <<"h", "t", "t", "p", "s", ":", "/", "/">>} :
        /\ StartsWith(s, scheme)
        /\ Len(s) > Len(scheme)
        /\ s[Len(scheme) + 1] \notin {"/", "?", "#", ":"} \cup Whitespace

HttpUrl(p, k) ==
    IF Given(p, k) /\ ~IsHttpUrl(p[k]) THEN {<<k, "url_parsing">>} ELSE {}

\* ge=n left out of the field.
GeUnchecked(p, k, n) == {}

\* ge=n
Ge(p, k, n) ==
    IF Has(p, k) /\ p[k] < n THEN {<<k, "greater_than_equal">>} ELSE {}

\* `value or default`: a given False is replaced by the default.
FieldOrTruthy(p, k, default) ==
    IF Has(p, k) /\ ~(k \in {"is_active", "is_private"} /\ p[k] = FALSE)
    THEN p[k] ELSE default

\* The field's value, or its declared default.
FieldOr(p, k, default) == IF Has(p, k) THEN p[k] ELSE default

Validated(errors, value) == [ok |-> errors = {}, errors |-> errors, value |-> value]

User(p) ==
    Validated(
        Required(p, "username") \cup MinLength(p, "username", 3)
            \cup MaxLength(p, "username", 32)
            \cup MaxLength(p, "display_name", 64)
            \cup HttpUrl(p, "avatar_url")
            \cup MaxLength(p, "bio", 280),
        [username     |-> FieldOr(p, "username", None),
         display_name |-> FieldOr(p, "display_name", None),
         avatar_url   |-> FieldOr(p, "avatar_url", None),
         bio          |-> FieldOr(p, "bio", None),
         is_active    |-> FieldOr(p, "is_active", TRUE)])

Channel(p) ==
    Validated(
        Required(p, "name") \cup MinLength(p, "name", 2)
            \cup MaxLength(p, "name", 64)
            \cup MaxLength(p, "topic", 140),
        [name       |-> FieldOr(p, "name", None),
         topic      |-> FieldOr(p, "topic", None),
         is_private |-> FieldOr(p, "is_private", FALSE)])

Message(p) ==
    Validated(
        Required(p, "channel_id")
            \cup Required(p, "author") \cup MinLength(p, "author", 3)
            \cup MaxLength(p, "author", 32)
            \cup Required(p, "content") \cup MinLength(p, "content", 1)
            \cup MaxLength(p, "content", 4000),
        [channel_id |-> FieldOr(p, "channel_id", None),
         author     |-> FieldOr(p, "author", None),
         content    |-> FieldOr(p, "content", None)])

Video(p) ==
    Validated(
        Required(p, "author") \cup MinLength(p, "author", 3)
            \cup MaxLength(p, "author", 32)
            \cup MaxLength(p, "caption", 300)
            \cup Required(p, "video_url") \cup HttpUrl(p, "video_url")
            \cup HttpUrl(p, "thumbnail_url")
            \cup Ge(p, "likes", 0),
        [author        |-> FieldOr(p, "author", None),
         caption       |-> FieldOr(p, "caption", None),
         video_url     |-> FieldOr(p, "video_url", None),
         thumbnail_url |-> FieldOr(p, "thumbnail_url", None),
         likes         |-> FieldOr(p, "likes", 0),
         tags          |-> FieldOr(p, "tags", <<>>)])

BotMessage(p) ==
    Validated(
        Required(p, "user") \cup MinLength(p, "user", 3)
            \cup MaxLength(p, "user", 32)
            \cup Required(p, "message") \cup MinLength(p, "message", 1)
            \cup MaxLength(p, "message", 4000),
        [user    |-> FieldOr(p, "user", None),
         message |-> FieldOr(p, "message", None)])

(***************************************************************************)
(* database.py: the document access layer.  db is the connection handle    *)
(* (None when no database is configured); a collection is the sequence of  *)
(* its documents in insertion order.  `fault` is what the database does to *)
(* the one call made: None for success, else the text of the error raised. *)
(***************************************************************************)
Collections == {"user", "channel", "message", "video"}

\* The text of the error raised when no database is configured.
NotConfigured == <<"D", "a", "t", "a", "b", "a", "s", "e", " ", "n", "o", "t", " ", "a", "v", "a", "i", "l", "a", "b", "l", "e">>

\* The outcome of a call: the exception raised or the value returned, the
\* store after it and the number of calls that reached the database.
Raised(text, st, n, calls) ==
    [raised |-> TRUE, exc |-> Exception(text), result |-> <<>>,
     store |-> st, nextId |-> n, calls |-> calls]

Returned(result, st, n, calls) ==
    [raised |-> FALSE, exc |-> Exception(<<>>), result |-> result,
     store |-> st, nextId |-> n, calls |-> calls]

\* insert_one: the document is the record's fields plus the generated _id.
InsertOne(st, n, coll, value) ==
    [st EXCEPT ![coll] = Append(@, ("_id" :> ObjectId(n)) @@ value)]

create_document(dbh, st, n, coll, value, fault) ==
    IF dbh = "None" THEN Raised(NotConfigured, st, n, 0)
    ELSE IF fault # None THEN Raised(fault, st, n, 1)
    ELSE Returned(StrOid(ObjectId(n)), InsertOne(st, n, coll, value), n + 1, 1)

\* A filter maps a field to a condition on it: equality with a value, or
\* $in: the (array) field holds one of the values.
Eq(v) == [op |-> "eq", value |-> v]
In(vs) == [op |-> "in", value |-> vs]
NoFilter == [k \in {} |-> Eq(None)]

Matches(doc, filter) ==
    \A k \in DOMAIN filter :
        /\ k \in DOMAIN doc
        /\ IF filter[k].op = "eq" THEN doc[k] = filter[k].value
           ELSE \E i \in DOMAIN doc[k] : \E j \in DOMAIN filter[k].value :
                    doc[k][i] = filter[k].value[j]

\* find(filter).limit(limit); limit 0 is no limit.
Find(docs, filter, limit) ==
    LET found == SelectSeq(docs, LAMBDA d : Matches(d, filter))
    IN  IF limit = 0 THEN found ELSE Prefix(found, limit)

get_documents(dbh, st, n, coll, filter, limit, fault) ==
    IF dbh = "None" THEN Raised(NotConfigured, st, n, 0)
    ELSE IF fault # None THEN Raised(fault, st, n, 1)
    ELSE Returned(Find(st[coll], filter, limit), st, n, 1)

(***************************************************************************)
(* main.py: the request handlers.  A handler maps the request and the      *)
(* state of the database to the one response sent and the state after.     *)
(***************************************************************************)
\* A response: the status, the JSON body of a success, the detail of an
\* HTTPException, the errors of a rejected body, and the number of calls
\* the handler made that reached the database.
Response(status, body, detail, errors, calls) ==
    [status |-> status, body |-> body, detail |-> detail,
     errors |-> errors, calls |-> calls]

Ok(body, calls) == Response(200, body, <<>>, {}, calls)

HTTPException(status_code, detail, calls) ==
    Response(status_code, <<>>, detail, {}, calls)

\* The framework rejects a body its model does not validate, before the
\* handler runs.
RequestValidationError(errors) == Response(422, <<>>, <<>>, errors, 0)

Handled(response, st, n) == [resp |-> response, store |-> st, nextId |-> n]

\* try: inserted_id = create_document(...); return {"id": inserted_id}
\* except Exception as e: raise HTTPException(status_code=500, detail=str(e))
Create(r) ==
    IF r.raised
    THEN Handled(HTTPException(500, StrExc(r.exc), r.calls), r.store, r.nextId)
    ELSE Handled(Ok([id |-> r.result], r.calls), r.store, r.nextId)

create_user(dbh, st, n, body, fault) ==
    LET user == User(body)
    IN  IF ~user.ok THEN Handled(RequestValidationError(user.errors), st, n)
        ELSE Create(create_document(dbh, st, n, "user", user.value, fault))

create_channel(dbh, st, n, body, fault) ==
    LET channel == Channel(body)
    IN  IF ~channel.ok THEN Handled(RequestValidationError(channel.errors), st, n)
        ELSE Create(create_document(dbh, st, n, "channel", channel.value, fault))

\* create_message with the insert tried again after a failure.
create_message_retrying(dbh, st, n, body, fault) ==
    LET message == Message(body)
    IN  IF ~message.ok THEN Handled(RequestValidationError(message.errors), st, n)
        ELSE
        LET first == create_document(dbh, st, n, "message", message.value, fault)
            again == create_document(dbh, st, n, "message", message.value, None)
        IN  IF first.raised /\ first.calls = 1
            THEN Create([again EXCEPT !.calls = 2])
            ELSE Create(first)

create_message(dbh, st, n, body, fault) ==
    LET message == Message(body)
    IN  IF ~message.ok THEN Handled(RequestValidationError(message.errors), st, n)
        ELSE Create(create_document(dbh, st, n, "message", message.value, fault))

create_video(dbh, st, n, body, fault) ==
    LET video == Video(body)
    IN  IF ~video.ok THEN Handled(RequestValidationError(video.errors), st, n)
        ELSE Create(create_document(dbh, st, n, "video", video.value, fault))

\* it["id"] = str(it["_id"]): the identifier read, not popped.
PublicIdKeepingRaw(it) ==
    IF "_id" \in DOMAIN it
    THEN [k \in DOMAIN it \cup {"id"} |->
            IF k = "id" THEN StrOid(it["_id"]) ELSE it[k]]
    ELSE it

\* if "_id" in it: it["id"] = str(it.pop("_id"))
PublicId(it) ==
    IF "_id" \in DOMAIN it
    THEN [k \in (DOMAIN it \ {"_id"}) \cup {"id"} |->
            IF k = "id" THEN StrOid(it["_id"]) ELSE it[k]]
    ELSE it

\* for it in items: ...; return items
\* except Exception as e: raise HTTPException(status_code=500, detail=str(e))
List(r) ==
    IF r.raised
    THEN Handled(HTTPException(500, StrExc(r.exc), r.calls), r.store, r.nextId)
    ELSE Handled(Ok([i \in 1..Len(r.result) |-> PublicId(r.result[i])], r.calls),
                 r.store, r.nextId)

\* The truth value of an Optional[str] query parameter: None and "" are false.
Truthy(s) == s # None /\ s # <<>>

list_users(dbh, st, n, fault) ==
    List(get_documents(dbh, st, n, "user", NoFilter, 0, fault))

list_channels(dbh, st, n, fault) ==
    List(get_documents(dbh, st, n, "channel", NoFilter, 0, fault))

list_messages(dbh, st, n, channel_id, fault) ==
    LET filter_dict == IF Truthy(channel_id) THEN [channel_id |-> Eq(channel_id)]
                       ELSE NoFilter
    IN  List(get_documents(dbh, st, n, "message", filter_dict, 100, fault))

list_videos(dbh, st, n, tag, fault) ==
    LET filter_dict == IF Truthy(tag) THEN [tags |-> In(<<tag>>)] ELSE NoFilter
    IN  List(get_documents(dbh, st, n, "video", filter_dict, 50, fault))

\* The keyword lists of chatbot.
VideoWords == {<<"v", "i", "d", "e", "o">>, <<"c", "l", "i", "p">>, <<"r", "e", "e", "l">>}
ChannelWords == {<<"c", "h", "a", "n", "n", "e", "l">>, <<"c", "h", "a", "t">>, <<"r", "o", "o", "m">>}

VideoReply(user) ==
    <<"H", "e", "y", " ">> \o user
        \o <<"!", " ", "T", "h", "a", "t", " ", "s", "o", "u", "n", "d", "s", " ", "l", "i", "k", "e", " ", "a", " ", "g", "r", "e", "a", "t", " ", "v", "i", "d", "e", "o", " ", "i", "d", "e", "a", ".", " ", "W", "a", "n", "t", " ", "m", "e", " ", "t", "o", " ", "d", "r", "a", "f", "t", " ", "a", " ", "c", "a", "t", "c", "h", "y", " ", "c", "a", "p", "t", "i", "o", "n", "?">>

ChannelReply(user) ==
    <<"S", "u", "r", "e", " ">> \o user
        \o <<",", " ", "I", " ", "c", "a", "n", " ", "h", "e", "l", "p", " ", "y", "o", "u", " ", "s", "e", "t", " ", "u", "p", " ", "a", " ", "n", "e", "w", " ", "c", "h", "a", "n", "n", "e", "l", " ", "o", "r", " ", "f", "i", "n", "d", " ", "t", "r", "e", "n", "d", "i", "n", "g", " ", "t", "o", "p", "i", "c", "s", ".">>

GenericReply(user, text) ==
    <<"H", "i", " ">> \o user \o <<",", " ", "I", " ", "h", "e", "a", "r", " ", "y", "o", "u", ":", " ", "'">> \o text \o <<"'", ".", " ", "H", "o", "w", " ", "c", "a", "n", " ", "I", " ", "h", "e", "l", "p", " ", "f", "u", "r", "t", "h", "e", "r", "?">>

\* chatbot with the channel words looked for first.
chatbot_channel_first(st, n, body) ==
    LET msg == BotMessage(body)
    IN  IF ~msg.ok THEN Handled(RequestValidationError(msg.errors), st, n)
        ELSE
        LET user == msg.value.user
            text == Strip(msg.value.message)
        IN  IF text = <<>>
            THEN Handled(HTTPException(400, <<"E", "m", "p", "t", "y", " ", "m", "e", "s", "s", "a", "g", "e">>, 0), st, n)
            ELSE IF \E k \in ChannelWords : Contains(Lower(text), k)
            THEN Handled(Ok([reply |-> ChannelReply(user)], 0), st, n)
            ELSE IF \E k \in VideoWords : Contains(Lower(text), k)
            THEN Handled(Ok([reply |-> VideoReply(user)], 0), st, n)
            ELSE Handled(Ok([reply |-> GenericReply(user, text)], 0), st, n)

\* chatbot testing the message as sent, not stripped, for emptiness.
chatbot_unstripped_test(st, n, body) ==
    LET msg == BotMessage(body)
    IN  IF ~msg.ok THEN Handled(RequestValidationError(msg.errors), st, n)
        ELSE
        LET user == msg.value.user
            text == Strip(msg.value.message)
        IN  IF msg.value.message = <<>>
            THEN Handled(HTTPException(400, <<"E", "m", "p", "t", "y", " ", "m", "e", "s", "s", "a", "g", "e">>, 0), st, n)
            ELSE IF \E k \in VideoWords : Contains(Lower(text), k)
            THEN Handled(Ok([reply |-> VideoReply(user)], 0), st, n)
            ELSE IF \E k \in ChannelWords : Contains(Lower(text), k)
            THEN Handled(Ok([reply |-> ChannelReply(user)], 0), st, n)
            ELSE Handled(Ok([reply |-> GenericReply(user, text)], 0), st, n)

chatbot(st, n, body) ==
    LET msg == BotMessage(body)
    IN  IF ~msg.ok THEN Handled(RequestValidationError(msg.errors), st, n)
        ELSE
        LET user == msg.value.user
            text == Strip(msg.value.message)
        IN  IF text = <<>>
            THEN Handled(HTTPException(400, <<"E", "m", "p", "t", "y", " ", "m", "e", "s", "s", "a", "g", "e">>, 0), st, n)
            ELSE IF \E k \in VideoWords : Contains(Lower(text), k)
            THEN Handled(Ok([reply |-> VideoReply(user)], 0), st, n)
            ELSE IF \E k \in ChannelWords : Contains(Lower(text), k)
            THEN Handled(Ok([reply |-> ChannelReply(user)], 0), st, n)
            ELSE Handled(Ok([reply |-> GenericReply(user, text)], 0), st, n)

\* db.list_collection_names(): the collections that hold a document.
CollectionNames(st) ==
    LET order == <<"channel", "message", "user", "video">>
    IN  SelectSeq(order, LAMBDA c : st[c] # <<>>)

\* /test: the connectivity check.  env_url tells whether DATABASE_URL is
\* set.  Its answer never fails; an error of the database is reported by the
\* first 50 characters of its text.  (The status glyphs that open the
\* texts of the answer are left out.)
test_database(dbh, st, n, env_url, fault) ==
    LET response == [backend |-> <<"R", "u", "n", "n", "i", "n", "g">>,
                     database |-> <<"N", "o", "t", " ", "A", "v", "a", "i", "l", "a", "b", "l", "e">>,
                     database_url |-> <<"N", "o", "t", " ", "S", "e", "t">>,
                     database_name |-> <<"N", "o", "t", " ", "S", "e", "t">>,
                     connection_status |-> <<"N", "o", "t", " ", "C", "o", "n", "n", "e", "c", "t", "e", "d">>,
                     collections |-> <<>>]
        connected == [response EXCEPT
                        !.database_url = IF env_url THEN <<"S", "e", "t">> ELSE <<"N", "o", "t", " ", "S", "e", "t">>,
                        !.database_name = <<"n", "o", "v", "a">>,
                        !.connection_status = <<"C", "o", "n", "n", "e", "c", "t", "e", "d">>]
    IN  IF dbh = "None"
        THEN Handled(Ok([response EXCEPT
                            !.database = <<"A", "v", "a", "i", "l", "a", "b", "l", "e", " ", "b", "u", "t", " ", "n", "o", "t", " ", "i", "n", "i", "t", "i", "a", "l", "i", "z", "e", "d">>], 0), st, n)
        ELSE IF fault # None
        THEN Handled(Ok([connected EXCEPT
                            !.database = <<"C", "o", "n", "n", "e", "c", "t", "e", "d", " ", "b", "u", "t", " ", "E", "r", "r", "o", "r", ":", " ">>
                                            \o Prefix(StrExc(Exception(fault)), 50)], 1),
                     st, n)
        ELSE Handled(Ok([connected EXCEPT
                            !.database = <<"C", "o", "n", "n", "e", "c", "t", "e", "d", " ", "&", " ", "W", "o", "r", "k", "i", "n", "g">>,
                            !.collections = Prefix(CollectionNames(st), 10)], 1), st, n)

(***************************************************************************)
(* The requests the model sends.                                           *)
(***************************************************************************)
\* What the database does to a call: nothing, or an error with this text.
ConnectionRefused ==
    <<"m", "o", "n", "g", "o", "d", "b", ":", "/", "/", "n", "o", "v", "a", ":", "s", "3", "c", "r", "e", "t", "@", "1", "0", ".", "0", ".", "0", ".", "5", ":", "2", "7", "0", "1", "7", ":", " ", "[", "E", "r", "r", "n", "o", " ", "1", "1", "1", "]", " ", "C", "o", "n", "n", "e", "c", "t", "i", "o", "n", " ", "r", "e", "f", "u", "s", "e", "d">>

Faults == {None, ConnectionRefused}

UserBodies ==
    { [username |-> <<"a", "n", "a">>],
      [username |-> Rep("u", 32), display_name |-> Rep("d", 64),
       avatar_url |-> <<"h", "t", "t", "p", "s", ":", "/", "/", "c", "d", "n", ".", "n", "o", "v", "a", ".", "a", "p", "p", "/", "a", ".", "p", "n", "g">>, bio |-> Rep("b", 280),
       is_active |-> FALSE],
      [username |-> <<"s", "a", "m">>, _id |-> <<"e", "v", "i", "l">>, id |-> <<"e", "v", "i", "l">>, bio |-> None],
      [username |-> <<"a", "l">>],
      [username |-> Rep("u", 33)],
      [display_name |-> <<"N", "o", " ", "N", "a", "m", "e">>],
      [username |-> None],
      [username |-> <<"l", "e", "e">>, display_name |-> Rep("d", 65)],
      [username |-> <<"l", "e", "e">>, bio |-> Rep("b", 281)],
      [username |-> <<"l", "e", "e">>, avatar_url |-> <<"n", "o", "t", "-", "a", "-", "u", "r", "l">>] }

ChannelBodies ==
    { [name |-> <<"g", "o">>],
      [name |-> Rep("n", 64), topic |-> Rep("t", 140), is_private |-> TRUE],
      [name |-> <<"g">>],
      [name |-> Rep("n", 65)],
      [topic |-> <<"n", "a", "m", "e", "l", "e", "s", "s">>],
      [name |-> <<"g", "e", "n", "e", "r", "a", "l">>, topic |-> Rep("t", 141)] }

MessageBodies ==
    { [channel_id |-> <<"c", "1">>, author |-> <<"a", "n", "a">>, content |-> <<"h">>],
      [channel_id |-> <<"c", "2">>, author |-> Rep("u", 32), content |-> <<"s", "e", "e", " ", "y", "o", "u", " ", "t", "h", "e", "r", "e">>],
      [channel_id |-> <<"c", "1">>, author |-> <<"a", "l">>, content |-> <<"h", "i">>],
      [channel_id |-> <<"c", "1">>, author |-> Rep("u", 33), content |-> <<"h", "i">>],
      [channel_id |-> <<"c", "1">>, author |-> <<"a", "n", "a">>, content |-> <<>>],
      [channel_id |-> <<"c", "1">>, author |-> <<"a", "n", "a">>, content |-> Rep("x", 4001)],
      [author |-> <<"a", "n", "a">>, content |-> <<"h", "i">>],
      [channel_id |-> <<"c", "1">>, content |-> <<"h", "i">>],
      [channel_id |-> <<"c", "1">>, author |-> <<"a", "n", "a">>] }

VideoBodies ==
    { [author |-> <<"a", "n", "a">>, video_url |-> <<"h", "t", "t", "p", "s", ":", "/", "/", "c", "d", "n", ".", "n", "o", "v", "a", ".", "a", "p", "p", "/", "v", ".", "m", "p", "4">>,
       tags |-> <<<<"f", "u", "n", "n", "y">>>>],
      [author |-> Rep("u", 32), caption |-> Rep("c", 300),
       video_url |-> <<"h", "t", "t", "p", ":", "/", "/", "v", ".", "n", "o", "v", "a", ".", "a", "p", "p", "/", "1">>,
       thumbnail_url |-> <<"h", "t", "t", "p", "s", ":", "/", "/", "c", "d", "n", ".", "n", "o", "v", "a", ".", "a", "p", "p", "/", "t", ".", "p", "n", "g">>, likes |-> 7,
       tags |-> <<<<"c", "a", "t", "s">>, <<"f", "u", "n", "n", "y">>>>],
      [author |-> <<"s", "a", "m">>, video_url |-> <<"h", "t", "t", "p", "s", ":", "/", "/", "c", "d", "n", ".", "n", "o", "v", "a", ".", "a", "p", "p", "/", "w", ".", "m", "p", "4">>,
       likes |-> 0],
      [author |-> <<"a", "l">>, video_url |-> <<"h", "t", "t", "p", "s", ":", "/", "/", "c", "d", "n", ".", "n", "o", "v", "a", ".", "a", "p", "p", "/", "v", ".", "m", "p", "4">>],
      [author |-> Rep("u", 33), video_url |-> <<"h", "t", "t", "p", "s", ":", "/", "/", "c", "d", "n", ".", "n", "o", "v", "a", ".", "a", "p", "p", "/", "v", ".", "m", "p", "4">>],
      [author |-> <<"a", "n", "a">>, video_url |-> <<"h", "t", "t", "p", "s", ":", "/", "/", "c", "d", "n", ".", "n", "o", "v", "a", ".", "a", "p", "p", "/", "v", ".", "m", "p", "4">>,
       likes |-> -1],
      [author |-> <<"a", "n", "a">>, video_url |-> <<"n", "o", "t", "-", "a", "-", "u", "r", "l">>],
      [author |-> <<"a", "n", "a">>, video_url |-> <<"/", "v", "i", "d", "e", "o", "s", "/", "v", ".", "m", "p", "4">>],
      [author |-> <<"a", "n", "a">>, video_url |-> <<"f", "t", "p", ":", "/", "/", "c", "d", "n", ".", "n", "o", "v", "a", ".", "a", "p", "p", "/", "v", ".", "m", "p", "4">>],
      [author |-> <<"a", "n", "a">>, video_url |-> <<"h", "t", "t", "p", ":", "/", "/">>],
      [author |-> <<"a", "n", "a">>],
      [author |-> <<"a", "n", "a">>, video_url |-> <<"h", "t", "t", "p", "s", ":", "/", "/", "c", "d", "n", ".", "n", "o", "v", "a", ".", "a", "p", "p", "/", "v", ".", "m", "p", "4">>,
       thumbnail_url |-> <<"t", "h", "u", "m", "b", ".", "p", "n", "g">>],
      [author |-> <<"a", "n", "a">>, video_url |-> <<"h", "t", "t", "p", "s", ":", "/", "/", "c", "d", "n", ".", "n", "o", "v", "a", ".", "a", "p", "p", "/", "v", ".", "m", "p", "4">>,
       caption |-> Rep("c", 301)] }

\* The channel_id query parameter: omitted (None) or supplied.
ChannelIds == {None, <<"c", "1">>, <<"c", "9">>, <<>>}

\* The tag query parameter: omitted (None) or supplied.
Tags == {None, <<"f", "u", "n", "n", "y">>, <<"u", "n", "k", "n", "o", "w", "n">>, <<>>}

BotUsers == {<<"L", "e", "e">>, <<"A", "n", "a">>, <<"S", "a", "m">>, <<"v", "i", "d", "e", "o">>, Rep("u", 32), <<"A", "l">>, Rep("u", 33)}

BotTexts ==
    { <<" ", " ", "v", "i", "d", "e", "o", " ", "c", "h", "a", "t", " ", "p", "l", "e", "a", "s", "e", " ", " ">>, <<" ", " ">>, <<"W", "h", "a", "t", "'", "s", " ", "u", "p">>, <<>>, <<" ", "\t", "\n">>, <<" ">>,
      <<"V", "I", "D", "E", "O">>, <<"C", "l", "i", "p", " ", "i", "t">>, <<"m", "y", " ", "r", "e", "e", "l">>, <<"c", "h", "a", "t", " ", "r", "o", "o", "m">>, <<"C", "h", "a", "n", "n", "e", "l", "?">>,
      <<"j", "o", "i", "n", " ", "t", "h", "e", " ", "R", "O", "O", "M">>, <<"h", "e", "l", "l", "o">>, <<" ", "h", "i", " ", "t", "h", "e", "r", "e", " ">>, <<"v", "i", "d", " ", "e", "o">>, <<"c", "h", "a", "t", "t", "e", "r">>,
      <<"r", "e", "e", "l", " ", "i", "n", " ", "t", "h", "e", " ", "c", "h", "a", "n", "n", "e", "l">>, <<"x">>, <<"\t", "c", "l", "i", "p", "\n">>, <<"r", "o", "o", "m", "s", " ", "a", "n", "d", " ", "c", "l", "i", "p", "s">>,
      <<"C", "H", "A", "T">>, <<"c", "a", "p", "t", "i", "o", "n", " ", "t", "h", "i", "s">>, <<"\n">>, Rep("x", 4001) }

BotBodies ==
    {[user |-> u, message |-> m] : u \in BotUsers, m \in BotTexts}
        \cup {[user |-> <<"L", "e", "e">>], [message |-> <<"h", "e", "l", "l", "o">>]}

(***************************************************************************)
(* The state machine.  db is the connection handle, store the collections  *)
(* of the database, nextId the number of the next generated identifier;    *)
(* req and resp are the last request handled and the response sent for it; *)
(* acked records every create answered with an id, with the body sent.     *)
(***************************************************************************)
DocCount(st) ==
    Len(st["user"]) + Len(st["channel"]) + Len(st["message"]) + Len(st["video"])

Init ==
    /\ db \in {"None", "mongo"}
    /\ store = [c \in Collections |-> <<>>]
    /\ nextId = 1
    /\ req = [op |-> "start", arg |-> <<>>, fault |-> None]
    /\ resp = Ok(<<>>, 0)
    /\ acked = {}

\* A fault is drawn for the call a request makes: a body its model rejects
\* makes none.
Reaches(model, fault) == fault # None => model.ok

\* One request handled: h is what the handler made of it.
Serve(op, arg, fault, h) ==
    /\ store' = h.store
    /\ nextId' = h.nextId
    /\ resp' = h.resp
    /\ req' = [op |-> op, arg |-> arg, fault |-> fault]
    /\ UNCHANGED db

\* The model stops creating once the database holds MaxDocs documents.
Room == DocCount(store) < MaxDocs

\* A create request handled; an answer carrying an id is recorded.
ServeCreate(coll, op, body, fault, h) ==
    /\ Serve(op, body, fault, h)
    /\ acked' = IF h.resp.status = 200
                THEN acked \cup {[coll |-> coll, id |-> h.resp.body.id, body |-> body]}
                ELSE acked

CreateUser ==
    /\ Room
    /\ \E body \in UserBodies, fault \in Faults :
        /\ Reaches(User(body), fault)
        /\ ServeCreate("user", "create_user", body, fault,
                    create_user(db, store, nextId, body, fault))

CreateChannel ==
    /\ Room
    /\ \E body \in ChannelBodies, fault \in Faults :
        /\ Reaches(Channel(body), fault)
        /\ ServeCreate("channel", "create_channel", body, fault,
                    create_channel(db, store, nextId, body, fault))

CreateMessage ==
    /\ Room
    /\ \E body \in MessageBodies, fault \in Faults :
        /\ Reaches(Message(body), fault)
        /\ ServeCreate("message", "create_message", body, fault,
                    create_message(db, store, nextId, body, fault))

CreateVideo ==
    /\ Room
    /\ \E body \in VideoBodies, fault \in Faults :
        /\ Reaches(Video(body), fault)
        /\ ServeCreate("video", "create_video", body, fault,
                    create_video(db, store, nextId, body, fault))

ListUsers ==
    \E fault \in Faults :
        /\ Serve("list_users", None, fault, list_users(db, store, nextId, fault))
        /\ UNCHANGED acked

ListChannels ==
    \E fault \in Faults :
        /\ Serve("list_channels", None, fault, list_channels(db, store, nextId, fault))
        /\ UNCHANGED acked

ListMessages ==
    \E channel_id \in ChannelIds, fault \in Faults :
        /\ Serve("list_messages", channel_id, fault,
                 list_messages(db, store, nextId, channel_id, fault))
        /\ UNCHANGED acked

ListVideos ==
    \E tag \in Tags, fault \in Faults :
        /\ Serve("list_videos", tag, fault,
                 list_videos(db, store, nextId, tag, fault))
        /\ UNCHANGED acked

TestDatabase ==
    \E env_url \in BOOLEAN, fault \in Faults :
        /\ Serve("test_database", None, fault,
                 test_database(db, store, nextId, env_url, fault))
        /\ UNCHANGED acked

Chatbot ==
    \E body \in BotBodies :
        /\ Serve("chatbot", body, None, chatbot(store, nextId, body))
        /\ UNCHANGED acked

Next ==
    \/ CreateUser
    \/ CreateChannel
    \/ CreateMessage
    \/ CreateVideo
    \/ ListUsers
    \/ ListChannels
    \/ ListMessages
    \/ ListVideos
    \/ TestDatabase

Spec == Init /\ [][Next]_vars

\* The reply endpoint alone: it neither reads nor writes the database.
BotNext == Chatbot

BotSpec == Init /\ [][BotNext]_vars

(***************************************************************************)
(* Properties.  The entity constraints are restated here from the data     *)
(* model, apart from the validators above, so that the two are compared.   *)
(***************************************************************************)
CreateOps == {"create_user", "create_channel", "create_message", "create_video"}
ListOps == {"list_users", "list_channels", "list_messages", "list_videos"}

CollectionOf(op) ==
    CASE op \in {"create_user", "list_users"} -> "user"
      [] op \in {"create_channel", "list_channels"} -> "channel"
      [] op \in {"create_message", "list_messages"} -> "message"
      [] op \in {"create_video", "list_videos"} -> "video"

\* The documents of a collection, as a set.
Docs(coll) == {store[coll][i] : i \in 1..Len(store[coll])}

\* A str of between lo and hi characters.
StrWithin(v, lo, hi) == v # None /\ lo <= Len(v) /\ Len(v) <= hi

\* None, or a str of at most hi characters.
OptStrWithin(v, hi) == v = None \/ Len(v) <= hi

\* scheme://host...: scheme http or https, host not empty.
WellFormedUrl(v) ==
    /\ v # None
    /\ \E i \in 1..Len(v) :
        /\ SubSeq(v, 1, i) \in {<<"h", "t", "t", "p">>, <<"h", "t", "t", "p", "s">>}
        /\ SubSeq(v, i + 1, i + 3) = <<":", "/", "/">>
        /\ Len(v) > i + 3
        /\ v[i + 4] # "/"

OptWellFormedUrl(v) == v = None \/ WellFormedUrl(v)

UserFields == {"username", "display_name", "avatar_url", "bio", "is_active"}
ChannelFields == {"name", "topic", "is_private"}
MessageFields == {"channel_id", "author", "content"}
VideoFields == {"author", "caption", "video_url", "thumbnail_url", "likes", "tags"}

FieldsOf(coll) ==
    CASE coll = "user" -> UserFields
      [] coll = "channel" -> ChannelFields
      [] coll = "message" -> MessageFields
      [] coll = "video" -> VideoFields

\* A stored document holds its entity's fields and the generated _id, and
\* nothing else.
Whole(d, coll) == DOMAIN d = FieldsOf(coll) \cup {"_id"}

UserOk(d) ==
    /\ Whole(d, "user")
    /\ StrWithin(d.username, 3, 32)
    /\ OptStrWithin(d.display_name, 64)
    /\ OptWellFormedUrl(d.avatar_url)
    /\ OptStrWithin(d.bio, 280)
    /\ d.is_active \in BOOLEAN

ChannelOk(d) ==
    /\ Whole(d, "channel")
    /\ StrWithin(d.name, 2, 64)
    /\ OptStrWithin(d.topic, 140)
    /\ d.is_private \in BOOLEAN

MessageOk(d) ==
    /\ Whole(d, "message")
    /\ d.channel_id # None
    /\ StrWithin(d.author, 3, 32)
    /\ StrWithin(d.content, 1, 4000)

VideoOk(d) ==
    /\ Whole(d, "video")
    /\ StrWithin(d.author, 3, 32)
    /\ OptStrWithin(d.caption, 300)
    /\ WellFormedUrl(d.video_url)
    /\ OptWellFormedUrl(d.thumbnail_url)
    /\ d.likes >= 0
    /\ \A i \in DOMAIN d.tags : d.tags[i] # None

\* C1: after any sequence of create requests, every document present in a
\* collection is whole (every field of its entity present, none partial) and
\* satisfies all field constraints of its entity: required fields set, string
\* lengths within bounds, likes >= 0, URL fields well-formed.
C1_StoredDocumentsValid ==
    /\ \A d \in Docs("user") : UserOk(d)
    /\ \A d \in Docs("channel") : ChannelOk(d)
    /\ \A d \in Docs("message") : MessageOk(d)
    /\ \A d \in Docs("video") : VideoOk(d)

\* A video is stored and a video of likes -1 has just been refused.
C1_Witness ==
    /\ store["video"] # <<>>
    /\ req.op = "create_video"
    /\ resp.status = 422
    /\ <<"likes", "greater_than_equal">> \in resp.errors

\* The length-bounded name field of each create request, with its bounds.
BoundedField(op) ==
    CASE op = "create_user" -> [name |-> "username", min |-> 3, max |-> 32]
      [] op = "create_channel" -> [name |-> "name", min |-> 2, max |-> 64]
      [] op = "create_message" -> [name |-> "author", min |-> 3, max |-> 32]
      [] op = "create_video" -> [name |-> "author", min |-> 3, max |-> 32]

ErrorsOn(field) == {e \in resp.errors : e[1] = field}

\* C10: the length bounds of User.username (3-32), Message/Video author
\* (3-32) and Channel.name (2-64) are inclusive at both edges.  A create
\* request whose field has a length within the bounds, the minimum and the
\* maximum included, is not refused for that field, and when nothing else
\* fails it is answered 200 and the value is stored; one whose field is
\* shorter than the minimum or longer than the maximum is answered with a
\* validation error on that field, and no document holds the value.
C10_LengthBoundsInclusive ==
    req.op \in CreateOps =>
        LET f == BoundedField(req.op)
            coll == CollectionOf(req.op)
        IN  (f.name \in DOMAIN req.arg /\ req.arg[f.name] # None) =>
                LET v == req.arg[f.name]
                IN  IF f.min <= Len(v) /\ Len(v) <= f.max
                    THEN /\ ErrorsOn(f.name) = {}
                         /\ (resp.errors = {} /\ req.fault = None /\ db = "mongo") =>
                                /\ resp.status = 200
                                /\ store[coll] # <<>>
                                /\ store[coll][Len(store[coll])][f.name] = v
                    ELSE /\ resp.status = 422
                         /\ ErrorsOn(f.name) # {}
                         /\ \A d \in Docs(coll) : d[f.name] # v

\* A channel named with exactly 64 characters has been created and stored.
C10_Witness ==
    /\ req.op = "create_channel"
    /\ "name" \in DOMAIN req.arg
    /\ Len(req.arg.name) = 64
    /\ resp.status = 200
    /\ store["channel"] # <<>>
    /\ store["channel"][Len(store["channel"])].name = req.arg.name

\* C6: for every list endpoint and every reachable store state, each
\* document of a successful response carries a string "id" holding the
\* identifier generated for it at its creation, and has no "_id" key.
C6_PublicIdOnly ==
    (req.op \in ListOps /\ resp.status = 200) =>
        \A i \in 1..Len(resp.body) :
            LET d == resp.body[i]
            IN  /\ "_id" \notin DOMAIN d
                /\ "id" \in DOMAIN d
                /\ \A j \in 1..Len(d.id) : \E h \in 1..Len(HexDigits) : d.id[j] = HexDigits[h]
                /\ \E a \in acked : a.coll = CollectionOf(req.op) /\ a.id = d.id
                /\ \A k \in 1..Len(resp.body) : resp.body[k].id = d.id => k = i

\* A list of channels has answered with two documents.
C6_Witness ==
    /\ req.op = "list_channels"
    /\ resp.status = 200
    /\ Len(resp.body) = 2

\* The defaults the entities declare.
Defaults(coll) ==
    CASE coll = "user" -> [is_active |-> TRUE]
      [] coll = "channel" -> [is_private |-> FALSE]
      [] coll = "message" -> [k \in {} |-> TRUE]
      [] coll = "video" -> [likes |-> 0, tags |-> <<>>]

\* The limit the list endpoint of a collection passes; 0 for none.
ListLimit(coll) ==
    CASE coll = "user" -> 0
      [] coll = "channel" -> 0
      [] coll = "message" -> 100
      [] coll = "video" -> 50

WithinLimit(coll) == ListLimit(coll) = 0 \/ Len(store[coll]) <= ListLimit(coll)

\* What the list endpoint of a collection answers now, no filter given.
Listed(coll) ==
    CASE coll = "user" -> list_users(db, store, nextId, None).resp
      [] coll = "channel" -> list_channels(db, store, nextId, None).resp
      [] coll = "message" -> list_messages(db, store, nextId, None, None).resp
      [] coll = "video" -> list_videos(db, store, nextId, None, None).resp

\* C7: create then list round-trips.  For every create answered with id X,
\* a later list of that collection (the collection within the list limit)
\* succeeds and contains a document whose id is X, whose fields equal the
\* submitted fields, with the declared default for each defaulted field not
\* submitted (is_active true, is_private false, likes 0, tags empty), and
\* which has no internal identifier key.
C7_CreateListRoundTrip ==
    \A a \in acked :
        WithinLimit(a.coll) =>
            LET listed == Listed(a.coll)
            IN  /\ listed.status = 200
                /\ \E i \in 1..Len(listed.body) :
                    LET d == listed.body[i]
                    IN  /\ "id" \in DOMAIN d
                        /\ d.id = a.id
                        /\ "_id" \notin DOMAIN d
                        /\ \A k \in DOMAIN a.body \cap FieldsOf(a.coll) :
                                k \in DOMAIN d /\ d[k] = a.body[k]
                        /\ \A k \in DOMAIN Defaults(a.coll) \ DOMAIN a.body :
                                k \in DOMAIN d /\ d[k] = Defaults(a.coll)[k]

\* Two creates were answered with an id, one of a user sent as inactive and
\* one of a video sent without likes.
C7_Witness ==
    /\ \E a \in acked : a.coll = "user" /\ "is_active" \in DOMAIN a.body
                        /\ a.body.is_active = FALSE
    /\ \E a \in acked : a.coll = "video" /\ "likes" \notin DOMAIN a.body

C4_OnlySuppliedChannel ==
    (req.op = "list_messages" /\ resp.status = 200) =>
        /\ Len(resp.body) <= 100
        /\ req.arg # None =>
              \A i \in 1..Len(resp.body) : resp.body[i].channel_id = req.arg

\* C5 (as claimed): for any tag supplied to GET /api/videos, every returned
\* document has the tag among its tags, a tag no stored video carries yields
\* an empty list, and at most 50 documents are returned.
C5_OnlySuppliedTag ==
    (req.op = "list_videos" /\ resp.status = 200) =>
        /\ Len(resp.body) <= 50
        /\ req.arg # None =>
              /\ \A i \in 1..Len(resp.body) :
                    \E j \in DOMAIN resp.body[i].tags : resp.body[i].tags[j] = req.arg
              /\ (\A d \in Docs("video") : \A j \in DOMAIN d.tags : d.tags[j] # req.arg)
                    => resp.body = <<>>

\* The text of the error the database call of the last request raised.
ErrorText == IF db = "None" THEN NotConfigured ELSE req.fault

\* C8 (as claimed): a 5xx answer of a create or list handler carries a
\* bounded prefix of the error text (50 characters, the bound /test uses),
\* never the full text of a longer error.
C8_DiagnosticBounded ==
    (req.op \in CreateOps \cup ListOps /\ resp.status >= 500) =>
        /\ Len(resp.detail) <= 50
        /\ resp.detail = Prefix(ErrorText, 50)

(***************************************************************************)
(* The reply endpoint.                                                     *)
(***************************************************************************)
\* The body of the last /api/bot request is a valid BotMessage.
BotBodyValid ==
    /\ req.op = "chatbot"
    /\ DOMAIN req.arg = {"user", "message"}
    /\ StrWithin(req.arg.user, 3, 32)
    /\ StrWithin(req.arg.message, 1, 4000)

\* m without its surrounding whitespace: between the first and the last
\* character that is not whitespace.
Trimmed(m) ==
    LET inner == {i \in 1..Len(m) : m[i] \notin Whitespace}
    IN  IF inner = {} THEN <<>>
        ELSE SubSeq(m, CHOOSE i \in inner : \A j \in inner : i <= j,
                       CHOOSE i \in inner : \A j \in inner : i >= j)

HasWord(t, words) == \E w \in words : Contains(Lower(t), w)

\* The three templates, told apart by their opening.
IsCaptionOffer(reply, user) ==
    StartsWith(reply, <<"H", "e", "y", " ">> \o user \o <<"!">>) /\ Contains(reply, <<"c", "a", "p", "t", "i", "o", "n">>)

IsChannelOffer(reply, user) ==
    StartsWith(reply, <<"S", "u", "r", "e", " ">> \o user \o <<",">>) /\ Contains(reply, <<"c", "h", "a", "n", "n", "e", "l">>)

IsEcho(reply, user, t) ==
    /\ StartsWith(reply, <<"H", "i", " ">> \o user \o <<",">>)
    /\ Contains(reply, <<"'">> \o t \o <<"'">>)

\* C2: for every user and every message whose trimmed text is not empty,
\* the reply is chosen with fixed precedence: the caption offer, naming the
\* user, when the lowercased trimmed text contains "video", "clip" or
\* "reel", whether or not it contains "channel", "chat" or "room"; the
\* channel offer only when it contains none of the first and one of the
\* second; else the generic reply, naming the user and quoting the trimmed
\* text verbatim.
C2_ReplyPrecedence ==
    (BotBodyValid /\ Trimmed(req.arg.message) # <<>>) =>
        LET t == Trimmed(req.arg.message)
            user == req.arg.user
        IN  /\ resp.status = 200
            /\ IF HasWord(t, {<<"v", "i", "d", "e", "o">>, <<"c", "l", "i", "p">>, <<"r", "e", "e", "l">>})
               THEN IsCaptionOffer(resp.body.reply, user)
               ELSE IF HasWord(t, {<<"c", "h", "a", "n", "n", "e", "l">>, <<"c", "h", "a", "t">>, <<"r", "o", "o", "m">>})
               THEN IsChannelOffer(resp.body.reply, user)
               ELSE IsEcho(resp.body.reply, user, t)

\* "  video chat please  " from Lee has been answered with the caption offer.
C2_Witness ==
    /\ BotBodyValid
    /\ req.arg.user = <<"L", "e", "e">>
    /\ req.arg.message = <<" ", " ", "v", "i", "d", "e", "o", " ", "c", "h", "a", "t", " ", "p", "l", "e", "a", "s", "e", " ", " ">>
    /\ resp.status = 200
    /\ IsCaptionOffer(resp.body.reply, <<"L", "e", "e">>)

\* C3: a POST /api/bot request whose message is empty after trimming (all
\* of its characters whitespace, so that it passes the raw min-length-1
\* check) is refused with a 400 and no reply.
C3_BlankMessageRefused ==
    (BotBodyValid /\ \A i \in 1..Len(req.arg.message) : req.arg.message[i] \in Whitespace) =>
        /\ resp.status = 400
        /\ resp.detail = <<"E", "m", "p", "t", "y", " ", "m", "e", "s", "s", "a", "g", "e">>
        /\ resp.body = <<>>

\* "  " from Ana has been refused with a 400.
C3_Witness ==
    /\ BotBodyValid
    /\ req.arg.user = <<"A", "n", "a">>
    /\ req.arg.message = <<" ", " ">>
    /\ resp.status = 400

====
